---------------------------- MODULE Spec2Model ----------------------------
(***************************************************************************)
(* A model of the md-to-html conversion pipeline: MarkdownLexer.tokenize,  *)
(* MarkdownParser.parse, HTMLRenderer.render and the MarkdownConverter     *)
(* object that composes them and keeps the renderer's options; of the     *)
(* MarkdownBackgroundAgent that watches a folder and converts what is      *)
(* saved in it; of the batch command's convertFilesInBatches; and of the   *)
(* FileUtils path functions as the convert command calls them.             *)
(*                                                                         *)
(* A JavaScript string is a TLA+ string; indices are 0-based as in the     *)
(* source, and the String methods the source calls (substring, indexOf,    *)
(* trim, split, startsWith, endsWith, replace) keep their semantics.       *)
(* A TLA+ string cannot hold the backquote: the tilde, a character the     *)
(* source gives no meaning to, is written for it in every text below.      *)
(* The JavaScript value undefined is written "undefined".                  *)
(***************************************************************************)
EXTENDS Integers, Sequences, FiniteSets, TLC

\* the converter object, the value it is given and what the call made of it
VARIABLES markdown, options, callOptions, hljs, outcome, tokens, astRoot, html

\* the background agent, the folders it watches and writes, and what it has done
VARIABLES mdFiles, htmlFiles, processingFiles, timers, converting, removing, events,
          windows, windowEvents, started, converted, unlinked, unread, staleReads

\* the batch command
VARIABLES files, concurrency, loopIndex, batch, batchResults, results, batchAt

\* the convert command: the path it is given, what FileUtils says of it
VARIABLES inputPath, outputDir, isMarkdown, outputPath, convertFileAt

converterVars == <<markdown, options, callOptions, hljs, outcome, tokens, astRoot, html>>

agentVars ==
  <<mdFiles, htmlFiles, processingFiles, timers, converting, removing, events, windows,
    windowEvents, started, converted, unlinked, unread, staleReads>>

batchVars == <<files, concurrency, loopIndex, batch, batchResults, results, batchAt>>

fileUtilsVars == <<inputPath, outputDir, isMarkdown, outputPath, convertFileAt>>

vars == <<converterVars, agentVars, batchVars, fileUtilsVars>>

-----------------------------------------------------------------------------
(* JavaScript String and Array built-ins, as the source uses them *)

\* the backquote character
Backtick == "~"

\* text[i]: the character at 0-based index i, undefined outside the string
CharAt(s, i) == IF i >= 0 /\ i < Len(s) THEN SubSeq(s, i + 1, i + 1) ELSE "undefined"

\* s.substring(a, b): 0-based, end-exclusive, clamped to the string, swapped if a > b
Substring(s, a, b) ==
  LET lo == IF a < 0 THEN 0 ELSE IF a > Len(s) THEN Len(s) ELSE a
      hi == IF b < 0 THEN 0 ELSE IF b > Len(s) THEN Len(s) ELSE b
  IN IF lo <= hi THEN SubSeq(s, lo + 1, hi) ELSE SubSeq(s, hi + 1, lo)

\* s.startsWith(p)
StartsWith(s, p) == Len(p) <= Len(s) /\ SubSeq(s, 1, Len(p)) = p

\* s.endsWith(p)
EndsWith(s, p) == Len(p) <= Len(s) /\ SubSeq(s, Len(s) - Len(p) + 1, Len(s)) = p

\* s.indexOf(p, from): the first index >= from where p occurs, -1 when none
IndexOf(s, p, from) ==
  LET hits == {k \in (IF from < 0 THEN 0 ELSE from)..(Len(s) - Len(p)) :
                 SubSeq(s, k + 1, k + Len(p)) = p}
  IN IF hits = {} THEN -1 ELSE CHOOSE k \in hits : \A j \in hits : k <= j

\* the characters \s and trim() treat as white space
Whitespace == {" ", "\t", "\r", "\n"}

\* the number of consecutive characters of set S starting at index from
Run(s, from, S) ==
  LET ends == {k \in from..Len(s) : \A j \in from..(k - 1) : CharAt(s, j) \in S}
  IN IF ends = {} THEN 0 ELSE (CHOOSE k \in ends : \A j \in ends : j <= k) - from

\* s.trim()
Trim(s) ==
  LET lead == Run(s, 0, Whitespace)
      keep == {k \in lead..Len(s) : k = lead \/ CharAt(s, k - 1) \notin Whitespace}
      last == CHOOSE k \in keep : \A j \in keep : j <= k
  IN SubSeq(s, lead + 1, last)

\* s.split(sep) for a one-character separator: "" splits into one empty piece
RECURSIVE Split(_, _)
Split(s, sep) ==
  LET k == IndexOf(s, sep, 0)
  IN IF k = -1 THEN <<s>>
     ELSE <<SubSeq(s, 1, k)>> \o Split(SubSeq(s, k + 2, Len(s)), sep)

\* parts.join(sep)
RECURSIVE Join(_, _)
Join(parts, sep) ==
  IF Len(parts) = 0 THEN ""
  ELSE IF Len(parts) = 1 THEN parts[1]
  ELSE parts[1] \o sep \o Join(Tail(parts), sep)

\* s.replace(/c/g, r) for a one-character pattern c
RECURSIVE ReplaceAll(_, _, _)
ReplaceAll(s, c, r) ==
  IF s = "" THEN ""
  ELSE (IF Head(s) = c THEN r ELSE Head(s)) \o ReplaceAll(Tail(s), c, r)

\* parts.filter(x => x): the non-empty strings, in order
FilterNonEmpty(parts) == SelectSeq(parts, LAMBDA x : x # "")

-----------------------------------------------------------------------------
(* MarkdownLexer *)

\* the three backquotes of a fence line
Fence == Backtick \o Backtick \o Backtick

\* the header expression without the upper limit of six: /^(#+)\s+(.+)$/
HeaderMatchAnyLevel(t) ==
  LET h == Run(t, 0, {"#"})
      w == Run(t, h, Whitespace)
  IN [ok |-> h >= 1 /\ w >= 1 /\ h + w < Len(t),
      level |-> h,
      text |-> Substring(t, h + w, Len(t))]

\* /^(#{1,6})\s+(.+)$/ on a trimmed line
HeaderMatch(t) ==
  LET h == Run(t, 0, {"#"})
      w == Run(t, h, Whitespace)
  IN [ok |-> h >= 1 /\ h <= 6 /\ w >= 1 /\ h + w < Len(t),
      level |-> h,
      text |-> Substring(t, h + w, Len(t))]

\* /^[\s]*[-*+]\s+(.+)$/
ListMatch(t) ==
  LET lead == Run(t, 0, Whitespace)
      w == Run(t, lead + 1, Whitespace)
  IN [ok |-> CharAt(t, lead) \in {"-", "*", "+"} /\ w >= 1 /\ lead + 1 + w < Len(t),
      content |-> Substring(t, lead + 1 + w, Len(t))]

\* /^[\s]*\d+\.\s+(.+)$/
OrderedListMatch(t) ==
  LET lead == Run(t, 0, Whitespace)
      d == Run(t, lead, {"0", "1", "2", "3", "4", "5", "6", "7", "8", "9"})
      w == Run(t, lead + d + 1, Whitespace)
  IN [ok |-> d >= 1 /\ CharAt(t, lead + d) = "." /\ w >= 1 /\ lead + d + 1 + w < Len(t),
      content |-> Substring(t, lead + d + 1 + w, Len(t))]

\* /^[-*_]{3,}$/
HrMatch(t) == Len(t) >= 3 /\ \A k \in 0..(Len(t) - 1) : CharAt(t, k) \in {"-", "*", "_"}

\* trimmedLine.split('|').map(cell => cell.trim()).filter(cell => cell)
TableCells(t) ==
  LET raw == Split(t, "|")
  IN FilterNonEmpty([k \in 1..Len(raw) |-> Trim(raw[k])])

\* the while loop stopping one line early, so that the closing fence is not consumed
FenceEndBeforeCloser(lines, i) ==
  LET closers == {j \in (i + 1)..(Len(lines) - 1) : StartsWith(Trim(lines[j + 1]), Fence)}
  IN IF closers = {} THEN Len(lines) ELSE (CHOOSE j \in closers : \A k \in closers : j <= k) - 1

\* the inner while loop of the code-block branch: the index of the closing fence
\* line after line i, or lines.length when no later line opens with a fence
FenceEnd(lines, i) ==
  LET closers == {j \in (i + 1)..(Len(lines) - 1) : StartsWith(Trim(lines[j + 1]), Fence)}
  IN IF closers = {} THEN Len(lines) ELSE CHOOSE j \in closers : \A k \in closers : j <= k

\* the for loop of tokenize, from line index i on, toks being the tokens pushed so far
RECURSIVE TokenizeFrom(_, _, _)
TokenizeFrom(lines, i, toks) ==
  IF ~(i < Len(lines)) THEN toks
  ELSE
    LET line == lines[i + 1]
        trimmedLine == Trim(line)
        header == HeaderMatch(trimmedLine)
        listMatch == ListMatch(trimmedLine)
        orderedListMatch == OrderedListMatch(trimmedLine)
    IN
    IF trimmedLine = "" THEN
      TokenizeFrom(lines, i + 1, Append(toks,
        [type |-> "line_break", value |-> "\n", content |-> "\n",
         position |-> i, length |-> 1]))
    ELSE IF header.ok THEN
      TokenizeFrom(lines, i + 1, Append(toks,
        [type |-> "header", level |-> header.level, text |-> header.text, value |-> line,
         content |-> header.text, position |-> i, length |-> Len(line)]))
    ELSE IF StartsWith(trimmedLine, Fence) THEN
      LET language == Trim(Substring(trimmedLine, 3, Len(trimmedLine)))
          j == FenceEnd(lines, i)
          codeLines == SubSeq(lines, i + 2, j)
      IN TokenizeFrom(lines, j + 1, Append(toks,
           [type |-> "code_block", language |-> language, code |-> Join(codeLines, "\n"),
            value |-> line, content |-> Join(codeLines, "\n"),
            position |-> i, length |-> j - i + 1]))
    ELSE IF listMatch.ok THEN
      TokenizeFrom(lines, i + 1, Append(toks,
        [type |-> "list_item", content |-> listMatch.content, value |-> line,
         position |-> i, length |-> Len(line)]))
    ELSE IF orderedListMatch.ok THEN
      TokenizeFrom(lines, i + 1, Append(toks,
        [type |-> "ordered_list_item", content |-> orderedListMatch.content,
         value |-> line, position |-> i, length |-> Len(line)]))
    ELSE IF StartsWith(trimmedLine, ">") THEN
      TokenizeFrom(lines, i + 1, Append(toks,
        [type |-> "blockquote", content |-> Trim(Substring(trimmedLine, 1, Len(trimmedLine))),
         value |-> line, position |-> i, length |-> Len(line)]))
    ELSE IF HrMatch(trimmedLine) THEN
      TokenizeFrom(lines, i + 1, Append(toks,
        [type |-> "hr", value |-> line, content |-> line, position |-> i,
         length |-> Len(line)]))
    ELSE IF StartsWith(trimmedLine, "|") /\ EndsWith(trimmedLine, "|") THEN
      TokenizeFrom(lines, i + 1, Append(toks,
        [type |-> "table_row", content |-> trimmedLine, cells |-> TableCells(trimmedLine),
         value |-> line, position |-> i, length |-> Len(line)]))
    ELSE
      TokenizeFrom(lines, i + 1, Append(toks,
        [type |-> "paragraph", content |-> line, value |-> line, position |-> i,
         length |-> Len(line)]))

\* MarkdownLexer.tokenize(text), text a string
Tokenize(text) == TokenizeFrom(Split(text, "\n"), 0, <<>>)

-----------------------------------------------------------------------------
(* MarkdownParser *)

\* the step forgetting the accumulated text
FlushTextDiscarding(children, currentText) == children

\* the "add any accumulated text" step of parseInlineContent
FlushText(children, currentText) ==
  IF currentText # "" THEN Append(children, [type |-> "text", content |-> currentText])
  ELSE children

\* the while loop of parseInlineContent at index i
RECURSIVE InlineScan(_, _, _, _)
InlineScan(text, i, currentText, children) ==
  IF ~(i < Len(text)) THEN FlushText(children, currentText)
  ELSE
    LET flushed == FlushText(children, currentText)
        boldOpen == Substring(text, i, i + 2) = "**"
        boldEnd == IndexOf(text, "**", i + 2)
        italicOpen == CharAt(text, i) = "*" /\ CharAt(text, i + 1) # "*"
        italicEnd == IndexOf(text, "*", i + 1)
        codeOpen == CharAt(text, i) = Backtick
        codeEnd == IndexOf(text, Backtick, i + 1)
        linkOpen == CharAt(text, i) = "["
        linkEnd == IndexOf(text, "]", i)
        urlStart == linkEnd + 2
        urlEnd == IndexOf(text, ")", urlStart)
        imageOpen == Substring(text, i, i + 2) = "!["
        altEnd == IndexOf(text, "]", i + 2)
        srcStart == altEnd + 2
        srcEnd == IndexOf(text, ")", srcStart)
        opened == boldOpen \/ italicOpen \/ codeOpen \/ linkOpen \/ imageOpen
    IN
    IF boldOpen /\ boldEnd # -1 THEN
      InlineScan(text, boldEnd + 2, "", Append(flushed,
        [type |-> "bold", content |-> Substring(text, i + 2, boldEnd)]))
    ELSE IF italicOpen /\ italicEnd # -1 /\ CharAt(text, italicEnd + 1) # "*" THEN
      InlineScan(text, italicEnd + 1, "", Append(flushed,
        [type |-> "italic", content |-> Substring(text, i + 1, italicEnd)]))
    ELSE IF codeOpen /\ codeEnd # -1 THEN
      InlineScan(text, codeEnd + 1, "", Append(flushed,
        [type |-> "inline_code", content |-> Substring(text, i + 1, codeEnd)]))
    ELSE IF linkOpen /\ linkEnd # -1 /\ CharAt(text, linkEnd + 1) = "(" /\ urlEnd # -1 THEN
      InlineScan(text, urlEnd + 1, "", Append(flushed,
        [type |-> "link", content |-> Substring(text, i + 1, linkEnd),
         url |-> Substring(text, urlStart, urlEnd)]))
    ELSE IF imageOpen /\ altEnd # -1 /\ CharAt(text, altEnd + 1) = "(" /\ srcEnd # -1 THEN
      InlineScan(text, srcEnd + 1, "", Append(flushed,
        [type |-> "image", content |-> Substring(text, i + 2, altEnd),
         src |-> Substring(text, srcStart, srcEnd), alt |-> Substring(text, i + 2, altEnd)]))
    ELSE
      InlineScan(text, i + 1,
                 (IF opened THEN "" ELSE currentText) \o CharAt(text, i),
                 IF opened THEN flushed ELSE children)

\* parseInlineContent resolving the label of a link as inline content of its own
ParseInlineContentResolvingLabels(text) ==
  LET nodes == IF text = "" THEN <<>> ELSE InlineScan(text, 0, "", <<>>)
  IN [k \in 1..Len(nodes) |->
        IF nodes[k].type = "link"
        THEN [type |-> "link", content |-> nodes[k].content, url |-> nodes[k].url,
              children |-> InlineScan(nodes[k].content, 0, "", <<>>)]
        ELSE nodes[k]]

\* parseInlineContent taking the ! of the first ![ as a regular character
ParseInlineContentBangLiteral(text) ==
  LET bang == IndexOf(text, "![", 0)
  IN IF text = "" THEN <<>>
     ELSE IF bang = -1 THEN InlineScan(text, 0, "", <<>>)
     ELSE InlineScan(Substring(text, 0, bang + 1), 0, "", <<>>)
            \o InlineScan(Substring(text, bang + 1, Len(text)), 0, "", <<>>)

\* parseInlineContent closing a ** that opens the text at the last ** and not the first
ParseInlineContentLastBold(text) ==
  LET closers == {k \in 2..Len(text) : Substring(text, k, k + 2) = "**"}
      last == CHOOSE k \in closers : \A j \in closers : j <= k
  IN IF text = "" THEN <<>>
     ELSE IF Substring(text, 0, 2) = "**" /\ closers # {}
     THEN <<[type |-> "bold", content |-> Substring(text, 2, last)]>>
            \o InlineScan(text, last + 2, "", <<>>)
     ELSE InlineScan(text, 0, "", <<>>)

\* parseInlineContent with the url of a link ending one character early
ParseInlineContentShortUrl(text) ==
  LET nodes == IF text = "" THEN <<>> ELSE InlineScan(text, 0, "", <<>>)
  IN [k \in 1..Len(nodes) |->
        IF nodes[k].type = "link"
        THEN [nodes[k] EXCEPT !.url = Substring(@, 0, Len(@) - 1)]
        ELSE nodes[k]]

\* MarkdownParser.parseInlineContent(text)
ParseInlineContent(text) == IF text = "" THEN <<>> ELSE InlineScan(text, 0, "", <<>>)

\* a loop that takes one token and stops
RunOfTypeOne(toks, current, type) == 1

\* the tokens a parseList / parseOrderedList / parseTable loop consumes from current
RunOfType(toks, current, type) ==
  LET ends == {k \in current..Len(toks) : \A j \in current..(k - 1) : toks[j + 1].type = type}
  IN (CHOOSE k \in ends : \A j \in ends : j <= k) - current

\* parseList and parseOrderedList: one item per token of the run
ListItems(toks, current, n) ==
  [k \in 1..n |-> [type |-> "list_item", content |-> toks[current + k].content,
                   children |-> ParseInlineContent(toks[current + k].content)]]

\* parseTable: one row per token of the run
TableRows(toks, current, n) ==
  [k \in 1..n |-> [type |-> "table_row", cells |-> toks[current + k].cells]]

\* the while loop of parse: parseNode at cursor current, children pushed so far
RECURSIVE ParseFrom(_, _, _)
ParseFrom(toks, current, children) ==
  IF current >= Len(toks) THEN children
  ELSE
    LET token == toks[current + 1] IN
    CASE token.type = "header" ->
           ParseFrom(toks, current + 1, Append(children,
             [type |-> "header", level |-> token.level, text |-> token.text,
              children |-> ParseInlineContent(token.text)]))
      [] token.type = "code_block" ->
           ParseFrom(toks, current + 1, Append(children,
             [type |-> "code_block", language |-> token.language, code |-> token.code]))
      [] token.type = "list_item" ->
           LET n == RunOfType(toks, current, "list_item")
           IN ParseFrom(toks, current + n, Append(children,
                [type |-> "list", items |-> ListItems(toks, current, n)]))
      [] token.type = "ordered_list_item" ->
           LET n == RunOfType(toks, current, "ordered_list_item")
           IN ParseFrom(toks, current + n, Append(children,
                [type |-> "ordered_list", items |-> ListItems(toks, current, n)]))
      [] token.type = "blockquote" ->
           ParseFrom(toks, current + 1, Append(children,
             [type |-> "blockquote", content |-> token.content,
              children |-> ParseInlineContent(token.content)]))
      [] token.type = "hr" ->
           ParseFrom(toks, current + 1, Append(children, [type |-> "hr"]))
      [] token.type = "table_row" ->
           LET n == RunOfType(toks, current, "table_row")
           IN ParseFrom(toks, current + n, Append(children,
                [type |-> "table", rows |-> TableRows(toks, current, n)]))
      [] token.type = "line_break" ->
           ParseFrom(toks, current + 1, children)
      [] token.type = "paragraph" ->
           ParseFrom(toks, current + 1, Append(children,
             [type |-> "paragraph", content |-> token.content,
              children |-> ParseInlineContent(token.content)]))
      [] OTHER ->
           ParseFrom(toks, current + 1, Append(children,
             [type |-> "text", content |-> token.content]))

\* parse with a blockquote line merged into the blockquote before it
ParseMergingBlockquotes(toks) ==
  LET kids == ParseFrom(toks, 0, <<>>)
      keep == {k \in 1..Len(kids) :
                 ~(k > 1 /\ kids[k].type = "blockquote" /\ kids[k - 1].type = "blockquote")}
      nth(n) == CHOOSE k \in keep : Cardinality({j \in keep : j < k}) = n - 1
  IN [type |-> "document", children |-> [n \in 1..Cardinality(keep) |-> kids[nth(n)]]]

\* MarkdownParser.parse(tokens)
Parse(toks) == [type |-> "document", children |-> ParseFrom(toks, 0, <<>>)]

-----------------------------------------------------------------------------
(* HTMLRenderer *)

\* escapeHtml without its last replace, the one of the apostrophe
EscapeHtmlNoApostrophe(text) ==
  ReplaceAll(ReplaceAll(ReplaceAll(ReplaceAll(text,
    "&", "&amp;"), "<", "&lt;"), ">", "&gt;"), "\"", "&quot;")

\* HTMLRenderer.escapeHtml: five global replaces, & first
EscapeHtml(text) ==
  ReplaceAll(ReplaceAll(ReplaceAll(ReplaceAll(ReplaceAll(text,
    "&", "&amp;"), "<", "&lt;"), ">", "&gt;"), "\"", "&quot;"), "'", "&#39;")

\* the languages the highlight.js build has registered
HljsLanguages == {"js", "javascript"}

\* hljs.highlight(code, {language}): throws for a language it does not know, and
\* whenever the library fails (env = "throws"); else the code, escaped and marked up
HljsHighlight(code, language, env) ==
  IF language \notin HljsLanguages \/ env = "throws" THEN [threw |-> TRUE, value |-> ""]
  ELSE [threw |-> FALSE,
        value |-> IF code = "" THEN ""
                  ELSE "<span class=\"hljs-attr\">" \o EscapeHtml(code) \o "</span>"]

\* renderCodeBlock without its try/catch: what hljs.highlight throws goes up
RenderCodeBlockNoCatch(node, opts, env) ==
  LET highlighted == HljsHighlight(node.code, node.language, env)
      code == IF opts.highlight /\ node.language # "" THEN highlighted.value
              ELSE EscapeHtml(node.code)
      languageClass == IF node.language # ""
                       THEN " class=\"language-" \o node.language \o "\"" ELSE ""
  IN [threw |-> opts.highlight /\ node.language # "" /\ highlighted.threw,
      html |-> "<pre><code" \o languageClass \o ">" \o code \o "</code></pre>"]

\* renderCodeBlock writing the language class only when it highlights
RenderCodeBlockClassIfHighlighting(node, opts, env) ==
  LET highlighted == HljsHighlight(node.code, node.language, env)
      code == IF opts.highlight /\ node.language # "" THEN
                IF highlighted.threw THEN EscapeHtml(node.code) ELSE highlighted.value
              ELSE EscapeHtml(node.code)
      languageClass == IF opts.highlight /\ node.language # ""
                       THEN " class=\"language-" \o node.language \o "\"" ELSE ""
  IN [threw |-> FALSE,
      html |-> "<pre><code" \o languageClass \o ">" \o code \o "</code></pre>"]

\* HTMLRenderer.renderCodeBlock: the string it returns; it throws nothing, the catch
\* taking whatever hljs.highlight throws
RenderCodeBlock(node, opts, env) ==
  LET highlighted == HljsHighlight(node.code, node.language, env)
      code == IF opts.highlight /\ node.language # "" THEN
                IF highlighted.threw THEN EscapeHtml(node.code) ELSE highlighted.value
              ELSE EscapeHtml(node.code)
      languageClass == IF node.language # ""
                       THEN " class=\"language-" \o node.language \o "\"" ELSE ""
  IN [threw |-> FALSE,
      html |-> "<pre><code" \o languageClass \o ">" \o code \o "</code></pre>"]

\* renderTable with td for the cells of every row, the first included
RenderTableAllTd(node) ==
  IF Len(node.rows) = 0 THEN ""
  ELSE
    LET cell(c) == "<td>" \o EscapeHtml(c) \o "</td>"
        row(index) == LET cs == node.rows[index].cells
                      IN "<tr>" \o Join([k \in 1..Len(cs) |-> cell(cs[k])], "") \o "</tr>"
    IN "<table>\n" \o Join([r \in 1..Len(node.rows) |-> row(r)], "\n") \o "\n</table>"

\* HTMLRenderer.renderTable
RenderTable(node) ==
  IF Len(node.rows) = 0 THEN ""
  ELSE
    LET cell(index, c) == IF index = 1 THEN "<th>" \o EscapeHtml(c) \o "</th>"
                          ELSE "<td>" \o EscapeHtml(c) \o "</td>"
        row(index) == LET cs == node.rows[index].cells
                      IN "<tr>" \o Join([k \in 1..Len(cs) |-> cell(index, cs[k])], "") \o "</tr>"
    IN "<table>\n" \o Join([r \in 1..Len(node.rows) |-> row(r)], "\n") \o "\n</table>"

\* the decimal digit of a header level, as the template literal prints it
LevelDigit(level) == SubSeq("0123456789", level + 1, level + 1)

\* HTMLRenderer.renderNode, with renderHeader, renderParagraph, renderList,
\* renderOrderedList, renderBlockquote, renderHorizontalRule and renderInlineContent
RECURSIVE RenderNode(_, _, _)
RenderNode(node, opts, env) ==
  LET kids == IF "children" \in DOMAIN node
              THEN [k \in 1..Len(node.children) |-> RenderNode(node.children[k], opts, env)]
              ELSE <<>>
      escaped == IF "content" \in DOMAIN node THEN EscapeHtml(node.content) ELSE ""
      \* renderInlineContent: the children when there are any, else the escaped content
      inline == IF Len(kids) > 0 THEN Join(kids, "") ELSE escaped
      \* renderBlockquote: the children when the field is set, even if empty
      preferKids == IF "children" \in DOMAIN node THEN Join(kids, "") ELSE escaped
      \* renderList, renderOrderedList: the item's children when the field is set
      itemHtml(item) ==
        IF "children" \in DOMAIN item
        THEN Join([k \in 1..Len(item.children) |-> RenderNode(item.children[k], opts, env)], "")
        ELSE EscapeHtml(item.content)
      items == IF "items" \in DOMAIN node
               THEN [k \in 1..Len(node.items) |-> "<li>" \o itemHtml(node.items[k]) \o "</li>"]
               ELSE <<>>
  IN
  CASE node.type = "document" -> Join(kids, "\n")
    [] node.type = "header" ->
         "<h" \o LevelDigit(node.level) \o ">" \o inline \o "</h" \o LevelDigit(node.level) \o ">"
    [] node.type = "paragraph" -> "<p>" \o inline \o "</p>"
    [] node.type = "code_block" -> RenderCodeBlock(node, opts, env).html
    [] node.type = "list" -> "<ul>\n" \o Join(items, "\n") \o "\n</ul>"
    [] node.type = "ordered_list" -> "<ol>\n" \o Join(items, "\n") \o "\n</ol>"
    [] node.type = "blockquote" -> "<blockquote>" \o preferKids \o "</blockquote>"
    [] node.type = "hr" -> "<hr>"
    [] node.type = "table" -> RenderTable(node)
    [] node.type = "text" -> EscapeHtml(node.content)
    [] node.type = "bold" -> "<strong>" \o inline \o "</strong>"
    [] node.type = "italic" -> "<em>" \o inline \o "</em>"
    [] node.type = "inline_code" -> "<code>" \o EscapeHtml(node.content) \o "</code>"
    [] node.type = "link" -> "<a href=\"" \o EscapeHtml(node.url) \o "\">" \o inline \o "</a>"
    [] node.type = "image" ->
         "<img src=\"" \o EscapeHtml(node.src) \o "\" alt=\"" \o EscapeHtml(node.alt) \o "\" />"
    [] OTHER -> escaped

\* an exception leaves renderNode when the renderCodeBlock of a child throws one
RenderNodeThrows(node, opts, env) ==
  \E k \in 1..Len(node.children) :
    /\ node.children[k].type = "code_block"
    /\ RenderCodeBlock(node.children[k], opts, env).threw

\* the fixed text of wrapInDocument around the theme class and the content
DocumentOpen == "<!DOCTYPE html>\n<html lang=\"en\" class=\""

DocumentHead ==
  "\">\n<head>\n    <meta charset=\"UTF-8\">\n"
    \o "    <meta name=\"viewport\" content=\"width=device-width, initial-scale=1.0\">\n"
    \o "    <title>Markdown Document</title>\n"
    \o "    <link rel=\"stylesheet\" href=\"styles.css\">\n"
    \o "</head>\n<body>\n    <div class=\"container\">\n        "

DocumentClose == "\n    </div>\n</body>\n</html>"

\* a themeClass that is light only for 'light'
ThemeClassDarkUnlessLight(opts) ==
  IF opts.theme = "light" THEN "light-theme" ELSE "dark-theme"

\* the themeClass of wrapInDocument
ThemeClass(opts) == IF opts.theme = "dark" THEN "dark-theme" ELSE "light-theme"

\* HTMLRenderer.wrapInDocument
WrapInDocument(content, opts) ==
  DocumentOpen \o ThemeClass(opts) \o DocumentHead \o content \o DocumentClose

\* HTMLRenderer.render: the document it returns, or the exception that leaves it
Render(ast, opts, env) ==
  IF ast.type # "document" \/ RenderNodeThrows(ast, opts, env)
  THEN [threw |-> TRUE, html |-> ""]
  ELSE [threw |-> FALSE, html |-> WrapInDocument(RenderNode(ast, opts, env), opts)]

-----------------------------------------------------------------------------
(* MarkdownConverter *)

\* the options the HTMLRenderer constructor starts from
DefaultOptions == [highlight |-> TRUE, theme |-> "light"]

\* an options argument left out, or {}
EmptyOptions == [k \in {} |-> TRUE]

\* { ...a, ...b }
Merge(a, b) == [k \in DOMAIN a \cup DOMAIN b |-> IF k \in DOMAIN b THEN b[k] ELSE a[k]]

\* text.split('\n') throws a TypeError when text has no split method
TokenizeThrows(md) == ~md.split

\* what hljs.highlight did in each call renderCodeBlock made of it, in document order
HljsOutcomes(toks, opts, env) ==
  LET calls == SelectSeq(toks, LAMBDA t : /\ t.type = "code_block"
                                         /\ opts.highlight
                                         /\ t.language # "")
  IN [k \in 1..Len(calls) |->
        IF HljsHighlight(calls[k].code, calls[k].language, env).threw THEN "threw"
        ELSE "value"]

-----------------------------------------------------------------------------
(* The inputs: markdown texts put together from lines and blocks of every   *)
(* kind the lexer tells apart, with a payload in the places where text of   *)
(* the document ends up in the output; and values that are not strings.     *)
(* A value is its typeof, whether it has a split method, and the text whose *)
(* lines that method returns.                                               *)

\* the most fragments of a text that is converted once, with the default options
TextFragments == 2

\* the most fragments of a text that is converted again and again with options
CallFragments == 1

Fragments ==
  {"", " ", "$", "# $", "- $", "1. $", "> $", "---", "|$|$|", "~~~", "~~~$",
   "~~~js\n$\n~~~", "**$**", "*$*", "~$~", "[$]($)", "![$]($)", "**$", "[$]"}

Payloads == {"a", "<&>", "\"'"}

\* the fragments of a text are its lines and blocks: they are joined by line ends
Texts(n) ==
  {ReplaceAll(Join(fs, "\n"), "$", p) :
     fs \in UNION {[1..m -> Fragments] : m \in 1..n}, p \in Payloads}

\* the strings
Strings(n) == {[type |-> "string", split |-> TRUE, value |-> t] : t \in Texts(n)}

\* undefined, null and a number, which have no split method; and objects that bring
\* one, as new String(t) or { split: () => lines } do
NonStrings ==
  {[type |-> t, split |-> FALSE, value |-> ""] : t \in {"undefined", "object", "number"}}
    \cup {[type |-> "object", split |-> TRUE, value |-> t] : t \in {"", "# a"}}

Inputs(n) == Strings(n) \cup NonStrings

\* the options arguments a caller passes to convert
CallOptionSets ==
  {EmptyOptions, [theme |-> "dark"], [theme |-> "sepia"], [theme |-> "undefined"],
   [highlight |-> FALSE]}

\* how highlight.js behaves on the languages it knows during one call
HljsBehaviours == {"value", "throws"}

-----------------------------------------------------------------------------
(* MarkdownBackgroundAgent: the watcher's handlers, the debounce timers and  *)
(* the asynchronous convertFile and removeOutputFile calls. Each await is a  *)
(* point where other handlers run, so each call advances one await at a time.*)
(* The markdown files of the watched folder and the HTML files of the output *)
(* folder are named by the markdown file.                                    *)

\* the files matching the watch pattern *.md
WatchedFiles == {"a.md", "b.md"}

\* the most add, change and unlink events the watcher delivers
MaxEvents == 4

\* where a convertFile call of the agent stands: before fs.pathExists resolves, before
\* fs.readFile resolves in MarkdownConverter.convertFile, before fs.writeFile resolves
ConvertSteps == {"pathExists", "readFile", "writeFile"}

\* where a removeOutputFile call stands: before fs.pathExists, before fs.remove
RemoveSteps == {"pathExists", "remove"}

\* the state after new MarkdownBackgroundAgent() and start(), with an empty folder
AgentConstructed ==
  /\ mdFiles = {}
  /\ htmlFiles = {}
  /\ processingFiles = {}
  /\ timers = [f \in WatchedFiles |-> 0]
  /\ converting = [f \in WatchedFiles |-> [s \in ConvertSteps |-> 0]]
  /\ removing = [f \in WatchedFiles |-> [s \in RemoveSteps |-> 0]]
  /\ events = 0
  /\ windows = [f \in WatchedFiles |-> 0]
  /\ windowEvents = [f \in WatchedFiles |-> 0]
  /\ started = [f \in WatchedFiles |-> 0]
  /\ converted = [f \in WatchedFiles |-> 0]
  /\ unlinked = {}
  /\ unread = {}
  /\ staleReads = [f \in WatchedFiles |-> 0]

\* debounceConvert with a timer for every event
DebounceConvertEveryEvent(filePath) ==
  /\ processingFiles' = processingFiles \cup {filePath}
  /\ timers' = [timers EXCEPT ![filePath] = @ + 1]

\* debounceConvert(filePath, action)
DebounceConvert(filePath) ==
  IF filePath \in processingFiles THEN UNCHANGED <<processingFiles, timers>>
  ELSE /\ processingFiles' = processingFiles \cup {filePath}
       /\ timers' = [timers EXCEPT ![filePath] = @ + 1]

\* a markdown file is created or saved: the watcher's 'add' / 'change' handler runs
WatcherAddOrChange(filePath) ==
  /\ events < MaxEvents
  /\ events' = events + 1
  /\ mdFiles' = mdFiles \cup {filePath}
  /\ DebounceConvert(filePath)
  /\ windows' = [windows EXCEPT ![filePath] = IF timers[filePath] = 0 THEN @ + 1 ELSE @]
  /\ windowEvents' = [windowEvents EXCEPT ![filePath] = IF timers[filePath] = 0 THEN 1 ELSE @ + 1]
  /\ unread' = unread \cup {filePath}
  /\ staleReads' = [staleReads EXCEPT ![filePath] = converting[filePath]["readFile"]]
  /\ UNCHANGED <<htmlFiles, converting, removing, started, converted, unlinked>>
  /\ UNCHANGED <<converterVars, batchVars, fileUtilsVars>>

\* a markdown file is deleted: the 'unlink' handler calls removeOutputFile
WatcherUnlink(filePath) ==
  /\ events < MaxEvents
  /\ filePath \in mdFiles
  /\ events' = events + 1
  /\ mdFiles' = mdFiles \ {filePath}
  /\ removing' = [removing EXCEPT ![filePath]["pathExists"] = @ + 1]
  /\ unlinked' = unlinked \cup {filePath}
  /\ UNCHANGED <<htmlFiles, processingFiles, timers, converting, windows, windowEvents,
                 started, converted>>
  /\ UNCHANGED <<unread, staleReads>>
  /\ UNCHANGED <<converterVars, batchVars, fileUtilsVars>>

\* the callback without processingFiles.delete: the file stays in the set
TimerFiresKeepsProcessing(filePath) ==
  /\ timers[filePath] > 0
  /\ timers' = [timers EXCEPT ![filePath] = @ - 1]
  /\ converting' = [converting EXCEPT ![filePath]["pathExists"] = @ + 1]
  /\ started' = [started EXCEPT ![filePath] = @ + 1]
  /\ UNCHANGED <<mdFiles, htmlFiles, processingFiles, removing, events, windows,
                 windowEvents, converted, unlinked, unread, staleReads>>
  /\ UNCHANGED <<converterVars, batchVars, fileUtilsVars>>

\* the setTimeout callback of debounceConvert: convertFile is called and not awaited
TimerFires(filePath) ==
  /\ timers[filePath] > 0
  /\ timers' = [timers EXCEPT ![filePath] = @ - 1]
  /\ converting' = [converting EXCEPT ![filePath]["pathExists"] = @ + 1]
  /\ processingFiles' = processingFiles \ {filePath}
  /\ started' = [started EXCEPT ![filePath] = @ + 1]
  /\ UNCHANGED <<mdFiles, htmlFiles, removing, events, windows, windowEvents, converted,
                 unlinked>>
  /\ UNCHANGED <<unread, staleReads>>
  /\ UNCHANGED <<converterVars, batchVars, fileUtilsVars>>

\* convertFile: await fs.pathExists(fullPath), return when the file is gone
ConvertPathExists(filePath) ==
  /\ converting[filePath]["pathExists"] > 0
  /\ converting' =
       [converting EXCEPT ![filePath] =
          IF filePath \in mdFiles
          THEN [@ EXCEPT !["pathExists"] = @ - 1, !["readFile"] = @ + 1]
          ELSE [@ EXCEPT !["pathExists"] = @ - 1]]
  /\ UNCHANGED <<mdFiles, htmlFiles, processingFiles, timers, removing, events, windows,
                 windowEvents, started, converted, unlinked>>
  /\ UNCHANGED <<unread, staleReads>>
  /\ UNCHANGED <<converterVars, batchVars, fileUtilsVars>>

\* MarkdownConverter.convertFile: await fs.readFile(inputPath), which rejects when the
\* file is gone; the error is rethrown, and caught and logged by the agent
ConvertReadFile(filePath) ==
  /\ converting[filePath]["readFile"] > 0
  /\ \E stale \in BOOLEAN :
       /\ stale => staleReads[filePath] > 0
       /\ ~stale => staleReads[filePath] < converting[filePath]["readFile"]
       /\ staleReads' = [staleReads EXCEPT ![filePath] = IF stale THEN @ - 1 ELSE @]
       /\ unread' = IF stale \/ filePath \notin mdFiles THEN unread ELSE unread \ {filePath}
  /\ converting' =
       [converting EXCEPT ![filePath] =
          IF filePath \in mdFiles
          THEN [@ EXCEPT !["readFile"] = @ - 1, !["writeFile"] = @ + 1]
          ELSE [@ EXCEPT !["readFile"] = @ - 1]]
  /\ UNCHANGED <<mdFiles, htmlFiles, processingFiles, timers, removing, events, windows,
                 windowEvents, started, converted, unlinked>>
  /\ UNCHANGED <<converterVars, batchVars, fileUtilsVars>>

\* MarkdownConverter.convertFile: await fs.writeFile(outputPath, html)
ConvertWriteFile(filePath) ==
  /\ converting[filePath]["writeFile"] > 0
  /\ converting' = [converting EXCEPT ![filePath]["writeFile"] = @ - 1]
  /\ htmlFiles' = htmlFiles \cup {filePath}
  /\ converted' = [converted EXCEPT ![filePath] = @ + 1]
  /\ UNCHANGED <<mdFiles, processingFiles, timers, removing, events, windows, windowEvents,
                 started, unlinked>>
  /\ UNCHANGED <<unread, staleReads>>
  /\ UNCHANGED <<converterVars, batchVars, fileUtilsVars>>

\* removeOutputFile: await fs.pathExists(outputPath), done when there is no output
RemovePathExists(filePath) ==
  /\ removing[filePath]["pathExists"] > 0
  /\ removing' =
       [removing EXCEPT ![filePath] =
          IF filePath \in htmlFiles
          THEN [@ EXCEPT !["pathExists"] = @ - 1, !["remove"] = @ + 1]
          ELSE [@ EXCEPT !["pathExists"] = @ - 1]]
  /\ UNCHANGED <<mdFiles, htmlFiles, processingFiles, timers, converting, events, windows,
                 windowEvents, started, converted, unlinked>>
  /\ UNCHANGED <<unread, staleReads>>
  /\ UNCHANGED <<converterVars, batchVars, fileUtilsVars>>

\* removeOutputFile: await fs.remove(outputPath)
RemoveFile(filePath) ==
  /\ removing[filePath]["remove"] > 0
  /\ removing' = [removing EXCEPT ![filePath]["remove"] = @ - 1]
  /\ htmlFiles' = htmlFiles \ {filePath}
  /\ UNCHANGED <<mdFiles, processingFiles, timers, converting, events, windows,
                 windowEvents, started, converted, unlinked>>
  /\ UNCHANGED <<unread, staleReads>>
  /\ UNCHANGED <<converterVars, batchVars, fileUtilsVars>>

-----------------------------------------------------------------------------
(* BatchCommand: execute and convertFilesInBatches. The command line hands   *)
(* every option value over as a string, the default of --concurrency too, so *)
(* concurrency is a string of digits, and the loop variable i, the number 0  *)
(* at first, is a string from the first i += concurrency on: adding a string *)
(* to a number concatenates. The model keeps i as the string JavaScript      *)
(* makes of it, under the name loopIndex.                                    *)

\* the most files the patterns expand to
MaxFiles == 6

\* the file list of n files that expandPatterns returns
FileList(n) == [k \in 1..n |-> ToString(k) \o ".md"]

\* the values of --concurrency: the default '5' and what a user passes
CliConcurrency == {"1", "2", "3", "5"}

DigitValue(c) ==
  CASE c = "0" -> 0 [] c = "1" -> 1 [] c = "2" -> 2 [] c = "3" -> 3 [] c = "4" -> 4
    [] c = "5" -> 5 [] c = "6" -> 6 [] c = "7" -> 7 [] c = "8" -> 8 [] c = "9" -> 9

\* ToNumber of a string of decimal digits, as < and Array.prototype.slice apply it
RECURSIVE ToNumber(_)
ToNumber(s) ==
  IF s = "" THEN 0
  ELSE 10 * ToNumber(SubSeq(s, 1, Len(s) - 1)) + DigitValue(SubSeq(s, Len(s), Len(s)))

\* files.slice(i, i + concurrency)
BatchSlice(list, i, conc) ==
  LET len == Len(list)
      start == IF ToNumber(i) < len THEN ToNumber(i) ELSE len
      end == IF ToNumber(i \o conc) < len THEN ToNumber(i \o conc) ELSE len
  IN SubSeq(list, start + 1, end)

\* the state when execute calls convertFilesInBatches, before the batch command is
\* run: no files
BatchConstructed ==
  /\ files = <<>>
  /\ concurrency = "5"
  /\ loopIndex = "0"
  /\ batch = <<>>
  /\ batchResults = <<>>
  /\ results = <<>>
  /\ batchAt = "for"

\* the for loop's test holds: the batch is sliced and its conversions are started
StartBatch ==
  /\ batchAt = "for"
  /\ ToNumber(loopIndex) < Len(files)
  /\ batch' = BatchSlice(files, loopIndex, concurrency)
  /\ batchResults' = [k \in 1..Len(batch') |-> "pending"]
  /\ batchAt' = "allSettled"
  /\ UNCHANGED <<files, concurrency, loopIndex, results>>
  /\ UNCHANGED <<converterVars, agentVars, fileUtilsVars>>

\* one convertFile promise of the batch settles; BatchCommand.convertFile catches
\* every error, so it is fulfilled, with a result that tells success or failure
ConversionSettles(index, success) ==
  /\ batchAt = "allSettled"
  /\ index \in 1..Len(batch)
  /\ batchResults[index] = "pending"
  /\ batchResults' = [batchResults EXCEPT ![index] = IF success THEN "success" ELSE "failure"]
  /\ UNCHANGED <<files, concurrency, loopIndex, batch, results, batchAt>>
  /\ UNCHANGED <<converterVars, agentVars, fileUtilsVars>>

\* Promise.allSettled resolves: the results are collected, then i += concurrency
BatchSettled ==
  /\ batchAt = "allSettled"
  /\ \A k \in 1..Len(batch) : batchResults[k] # "pending"
  /\ results' = results \o batchResults
  /\ loopIndex' = loopIndex \o concurrency
  /\ batch' = <<>>
  /\ batchResults' = <<>>
  /\ batchAt' = "for"
  /\ UNCHANGED <<files, concurrency>>
  /\ UNCHANGED <<converterVars, agentVars, fileUtilsVars>>

\* the for loop's test fails: return results
ReturnResults ==
  /\ batchAt = "for"
  /\ ~(ToNumber(loopIndex) < Len(files))
  /\ batchAt' = "returned"
  /\ UNCHANGED <<files, concurrency, loopIndex, batch, batchResults, results>>
  /\ UNCHANGED <<converterVars, agentVars, fileUtilsVars>>

-----------------------------------------------------------------------------
(* FileUtils, as ConvertCommand.convertFile calls it on a path: isMarkdownFile, *)
(* then generateOutputPath when no output path is given. Paths are POSIX paths   *)
(* without . and .. segments and without doubled or trailing slashes, for which  *)
(* path.join does no more than joining.                                          *)

\* String.prototype.toLowerCase on the letters of the paths
LowerCaseOf(c) ==
  CASE c = "A" -> "a" [] c = "D" -> "d" [] c = "E" -> "e" [] c = "K" -> "k" [] c = "M" -> "m"
    [] c = "N" -> "n" [] c = "O" -> "o" [] c = "R" -> "r" [] c = "T" -> "t" [] c = "W" -> "w"
    [] c = "X" -> "x" [] OTHER -> c

ToLowerCase(s) == Join([k \in 1..Len(s) |-> LowerCaseOf(CharAt(s, k - 1))], "")

\* the index of the last occurrence of the character c in s, -1 when there is none
LastIndexOf(s, c) ==
  LET at == {k \in 0..(Len(s) - 1) : CharAt(s, k) = c}
  IN IF at = {} THEN -1 ELSE CHOOSE k \in at : \A j \in at : j <= k

\* path.basename(p): what follows the last slash
BaseName(p) == Substring(p, LastIndexOf(p, "/") + 1, Len(p))

\* path.extname(p): from the last dot of the base name on, empty when there is no dot
\* or the base name begins with its only dot
ExtName(p) ==
  LET base == BaseName(p)
      dot == LastIndexOf(base, ".")
  IN IF dot <= 0 THEN "" ELSE Substring(base, dot, Len(base))

\* path.basename(p, ext): the base name without the suffix ext, compared exactly,
\* when it ends with ext and is more than ext
BaseNameWithout(p, ext) ==
  LET base == BaseName(p)
  IN IF ext # "" /\ base # ext /\ EndsWith(base, ext)
     THEN Substring(base, 0, Len(base) - Len(ext))
     ELSE base

\* path.dirname(p)
DirName(p) ==
  LET slash == LastIndexOf(p, "/")
  IN IF slash = -1 THEN "." ELSE IF slash = 0 THEN "/" ELSE Substring(p, 0, slash)

\* path.join(dir, file) for a normalized dir
PathJoin(dir, file) ==
  IF dir = "." THEN file ELSE IF dir = "/" THEN "/" \o file ELSE dir \o "/" \o file

\* FileUtils.getExtension
GetExtension(filePath) == ToLowerCase(ExtName(filePath))

MarkdownExtensions == {".md", ".markdown", ".mdown", ".mkdn", ".mkd", ".mdwn", ".mdtxt", ".mdtext"}

\* FileUtils.isMarkdownFile
IsMarkdownFile(filePath) == GetExtension(filePath) \in MarkdownExtensions

\* FileUtils.generateOutputPath(inputPath, outputDir), "" being no outputDir
GenerateOutputPath(path, dir) ==
  PathJoin(IF dir # "" THEN dir ELSE DirName(path),
           BaseNameWithout(path, GetExtension(path)) \o ".html")

\* the folders, file names and extensions of the paths given to the command
PathFolders == {"", "docs/", "/", "a.b/c/"}

PathStems == {"README", "notes.v2", "x.md", ""}

PathExtensions ==
  MarkdownExtensions \cup {".MD", ".Md", ".MARKDOWN", ".MkD", ".MDTXT", ".txt", ".html", ""}

InputPaths ==
  {folder \o stem \o ext :
     folder \in PathFolders, stem \in PathStems, ext \in PathExtensions} \ PathFolders

\* the values of the outputDir option, "" when it is not given
OutputDirs == {"", "out", "site/html"}

\* no path has been given to the convert command
NoFileGiven ==
  /\ inputPath = ""
  /\ outputDir = ""
  /\ isMarkdown = FALSE
  /\ outputPath = ""
  /\ convertFileAt = "none"

\* ConvertCommand.convertFile: the isMarkdownFile test, which ends the call for a
\* path that is not accepted
ValidateInputFile ==
  /\ convertFileAt = "called"
  /\ isMarkdown' = IsMarkdownFile(inputPath)
  /\ convertFileAt' = IF isMarkdown' THEN "validated" ELSE "returned"
  /\ UNCHANGED <<inputPath, outputDir, outputPath>>
  /\ UNCHANGED <<converterVars, agentVars, batchVars>>

\* ConvertCommand.convertFile: the output path is generated
GenerateOutput ==
  /\ convertFileAt = "validated"
  /\ outputPath' = GenerateOutputPath(inputPath, outputDir)
  /\ convertFileAt' = "generated"
  /\ UNCHANGED <<inputPath, outputDir, isMarkdown>>
  /\ UNCHANGED <<converterVars, agentVars, batchVars>>

-----------------------------------------------------------------------------
(* The converter object: new MarkdownConverter(), then calls of convert *)

\* the document node parse starts from
EmptyDocument == [type |-> "document", children |-> <<>>]

\* the state after new MarkdownConverter(), with the value the caller is to convert
Constructed(n) ==
  /\ markdown \in Inputs(n)
  /\ options = DefaultOptions
  /\ callOptions = EmptyOptions
  /\ hljs = <<>>
  /\ outcome = "none"
  /\ tokens = <<>>
  /\ astRoot = EmptyDocument
  /\ html = ""

Init ==
  Constructed(CallFragments) /\ AgentConstructed /\ BatchConstructed /\ NoFileGiven

\* MarkdownConverter.convert(markdown, opts), env being how highlight.js behaves
Convert(opts, env) ==
  LET merged == Merge(options, opts)
      toks == Tokenize(markdown.value)
      rendered == Render(Parse(toks), merged, env)
  IN /\ options' = merged
     /\ callOptions' = opts
     /\ UNCHANGED markdown
     /\ IF TokenizeThrows(markdown) THEN
          /\ outcome' = "threw"
          /\ hljs' = <<>>
          /\ html' = ""
          /\ UNCHANGED <<tokens, astRoot>>
        ELSE
          /\ tokens' = toks
          /\ astRoot' = Parse(toks)
          /\ hljs' = HljsOutcomes(toks, merged, env)
          /\ outcome' = IF rendered.threw THEN "threw" ELSE "returned"
          /\ html' = rendered.html

Next ==
  /\ \E opts \in CallOptionSets, env \in HljsBehaviours : Convert(opts, env)
  /\ UNCHANGED <<agentVars, batchVars, fileUtilsVars>>

\* a converter called any number of times with any of the options
Spec == Init /\ [][Next]_vars

InitTexts ==
  Constructed(TextFragments) /\ AgentConstructed /\ BatchConstructed /\ NoFileGiven

NextTexts ==
  /\ \E env \in HljsBehaviours : Convert(EmptyOptions, env)
  /\ UNCHANGED <<agentVars, batchVars, fileUtilsVars>>

\* a converter called without options, on the longer texts
SpecTexts == InitTexts /\ [][NextTexts]_vars

-----------------------------------------------------------------------------
(* Texts made of whole lines, for what the lexer and the parser do with     *)
(* headers, lists, tables, fences and inline markers.                       *)

\* the most '#' characters a header line starts with
MaxHashes == 7

\* n '#' characters
RECURSIVE Hashes(_)
Hashes(n) == IF n = 0 THEN "" ELSE "#" \o Hashes(n - 1)

\* the white space between the '#' characters and the text of a header line
HeaderGaps == {" ", "  ", "\t"}

\* texts of a header, without inline markers
HeaderBodies == {"a", "a b"}

\* the header lines, those with more than six '#' included, and lines that are none
\* for want of white space
HeaderTexts ==
  {Hashes(n) \o gap \o body : n \in 1..MaxHashes, gap \in HeaderGaps, body \in HeaderBodies}
    \cup {Hashes(n) \o "a" : n \in 1..MaxHashes}
    \cup {"  " \o Hashes(n) \o " a  " : n \in 1..MaxHashes}

\* the texts of one to n lines of the set lines
LinesOver(lines, n) ==
  {Join(ls, "\n") : ls \in UNION {[1..m -> lines] : m \in 1..n}}

\* the most lines of a text made of list or table lines
MaxLines == 3

\* list items of both kinds, two of them with an unmatched bold marker, and lines
\* that end a list
ListLines == {"- a", "- **b", "* c**", "1. d", "2. *e*", "x", ""}

ListTexts == LinesOver(ListLines, MaxLines)

\* table rows, one of them a separator row and two with an empty column, and a line
\* that ends a table
TableLines == {"|a|b|", "| c | d |", "|---|---|", "|e||f|", "| g |  | h |", "x"}

TableTexts == LinesOver(TableLines, MaxLines)

\* an opening fence, bare or with a language and blanks around it
FenceOpeners == {Fence, "  " \o Fence \o "js "}

\* what may follow: a closing fence, bare or indented with text after it, and lines
\* that outside a code block are a header, a list item and a line break
FenceLines == {Fence, " " \o Fence \o " x", "  # x ", "- a", ""}

FenceTexts == {o \o "\n" \o t : o \in FenceOpeners, t \in LinesOver(FenceLines, MaxLines)}

\* what a link or an image stands after: nothing, a word, a header or list marker
InlinePrefixes == {"", "x ", "# ", "- "}

\* labels and alternative texts: plain, with bold markers, of special characters
InlineLabels == {"A", "**b**", "<&>"}

InlineUrls == {"u", "u&v", "\"'"}

InlineSuffixes == {"", " y"}

\* [label](url) after each prefix, and ![alt](src) after each prefix and after a
\* ! and a [ of their own
InlineTexts ==
  {pre \o "[" \o label \o "](" \o url \o ")" \o post :
     pre \in InlinePrefixes \cup {p \o m : p \in InlinePrefixes, m \in {"!", "!!", "[!"}},
     label \in InlineLabels, url \in InlineUrls, post \in InlineSuffixes}

\* a line of every kind parseNode tells apart but the code block
MixedLines == {"# h", "- a", "1. b", "> q", "---", "|c|", "", "p"}

MixedTexts == LinesOver(MixedLines, MaxLines)

BlockTexts ==
  HeaderTexts \cup ListTexts \cup TableTexts \cup FenceTexts \cup InlineTexts \cup MixedTexts

InitBlocks ==
  /\ markdown \in {[type |-> "string", split |-> TRUE, value |-> t] : t \in BlockTexts}
  /\ options = DefaultOptions
  /\ callOptions = EmptyOptions
  /\ hljs = <<>>
  /\ outcome = "none"
  /\ tokens = <<>>
  /\ astRoot = EmptyDocument
  /\ html = ""
  /\ AgentConstructed
  /\ BatchConstructed
  /\ NoFileGiven

\* a converter called without options, on the texts made of lines
SpecBlocks == InitBlocks /\ [][NextTexts]_vars

\* the pieces inline texts are put together from: the markers, opening and closing,
\* a label and a url with a character that is escaped, and a plain character
InlinePieces == {"**", "*", Backtick, "[<", "](&", ")", "!", "x"}

\* the most pieces of an inline text
MaxPieces == 4

\* longer texts: the spans of the lexer's tests, spans in spans, markers that cross
InlineCases ==
  {"This is **bold** text", "This is *italic* text",
   "This is " \o Backtick \o "code" \o Backtick \o " text",
   "[Google](u)", "![Alt text](s)",
   "**a*b**c*", "**a**b**", "*a*b*",
   "**" \o Backtick \o "c" \o Backtick \o "**", "**[t](u)**", "*[t](u)*", "***a***",
   "**a* b", "[a](b", "![a]b"}

InlineStrings ==
  {Join(ps, "") : ps \in UNION {[1..m -> InlinePieces] : m \in 1..MaxPieces}} \cup InlineCases

InitInline ==
  /\ markdown \in {[type |-> "string", split |-> TRUE, value |-> t] : t \in InlineStrings}
  /\ options = DefaultOptions
  /\ callOptions = EmptyOptions
  /\ hljs = <<>>
  /\ outcome = "none"
  /\ tokens = <<>>
  /\ astRoot = EmptyDocument
  /\ html = ""
  /\ AgentConstructed
  /\ BatchConstructed
  /\ NoFileGiven

\* a converter called without options, on one-line texts made of inline markers
SpecInline == InitInline /\ [][NextTexts]_vars

\* an agent that has started, its converter constructed from the agent's options
InitAgent ==
  /\ markdown = [type |-> "string", split |-> TRUE, value |-> ""]
  /\ options = DefaultOptions
  /\ callOptions = EmptyOptions
  /\ hljs = <<>>
  /\ outcome = "none"
  /\ tokens = <<>>
  /\ astRoot = EmptyDocument
  /\ html = ""
  /\ AgentConstructed
  /\ BatchConstructed
  /\ NoFileGiven

NextAgent ==
  \E filePath \in WatchedFiles :
    \/ WatcherAddOrChange(filePath)
    \/ WatcherUnlink(filePath)
    \/ TimerFires(filePath)
    \/ ConvertPathExists(filePath)
    \/ ConvertReadFile(filePath)
    \/ ConvertWriteFile(filePath)
    \/ RemovePathExists(filePath)
    \/ RemoveFile(filePath)

\* the watcher's events, the timers and the awaits in any order
SpecAgent == InitAgent /\ [][NextAgent]_vars

\* the event loop runs every timer that is due and every callback of a file system
\* call that has completed
AgentFairness ==
  \A filePath \in WatchedFiles :
    /\ WF_vars(TimerFires(filePath))
    /\ WF_vars(ConvertPathExists(filePath))
    /\ WF_vars(ConvertReadFile(filePath))
    /\ WF_vars(ConvertWriteFile(filePath))
    /\ WF_vars(RemovePathExists(filePath))
    /\ WF_vars(RemoveFile(filePath))

\* the agent under an event loop that leaves nothing waiting for ever
SpecAgentFair == SpecAgent /\ AgentFairness

\* execute has expanded the patterns and calls convertFilesInBatches
InitBatch ==
  /\ markdown = [type |-> "string", split |-> TRUE, value |-> ""]
  /\ options = DefaultOptions
  /\ callOptions = EmptyOptions
  /\ hljs = <<>>
  /\ outcome = "none"
  /\ tokens = <<>>
  /\ astRoot = EmptyDocument
  /\ html = ""
  /\ AgentConstructed
  /\ files \in {FileList(n) : n \in 1..MaxFiles}
  /\ concurrency \in CliConcurrency
  /\ loopIndex = "0"
  /\ batch = <<>>
  /\ batchResults = <<>>
  /\ results = <<>>
  /\ batchAt = "for"
  /\ NoFileGiven

NextBatch ==
  \/ StartBatch
  \/ \E index \in 1..MaxFiles, success \in BOOLEAN : ConversionSettles(index, success)
  \/ BatchSettled
  \/ ReturnResults

\* one run of the batch command
SpecBatch == InitBatch /\ [][NextBatch]_vars

\* ConvertCommand.convertFile is called with a path and no output path
InitPaths ==
  /\ markdown = [type |-> "string", split |-> TRUE, value |-> ""]
  /\ options = DefaultOptions
  /\ callOptions = EmptyOptions
  /\ hljs = <<>>
  /\ outcome = "none"
  /\ tokens = <<>>
  /\ astRoot = EmptyDocument
  /\ html = ""
  /\ AgentConstructed
  /\ BatchConstructed
  /\ inputPath \in InputPaths
  /\ outputDir \in OutputDirs
  /\ isMarkdown = FALSE
  /\ outputPath = ""
  /\ convertFileAt = "called"

NextPaths == ValidateInputFile \/ GenerateOutput

\* the convert command on one path
SpecPaths == InitPaths /\ [][NextPaths]_vars

-----------------------------------------------------------------------------
(* What the properties speak of *)

Contains(s, p) == IndexOf(s, p, 0) # -1

Returned == outcome = "returned"

\* the class attribute of the root element of a returned document
RootClass(h) == Substring(h, Len(DocumentOpen), IndexOf(h, "\"", Len(DocumentOpen)))

\* what wrapInDocument was given: the text between the container's tags
Body(h) ==
  Substring(h, Len(DocumentOpen) + Len(RootClass(h)) + Len(DocumentHead),
            Len(h) - Len(DocumentClose))

\* the HTML escape of one character, and of a text, by definition
EntityOf(c) ==
  CASE c = "&" -> "&amp;" [] c = "<" -> "&lt;" [] c = ">" -> "&gt;"
    [] c = "\"" -> "&quot;" [] c = "'" -> "&#39;" [] OTHER -> c

Escaped(s) == Join([k \in 1..Len(s) |-> EntityOf(CharAt(s, k - 1))], "")

Entities == {"&amp;", "&lt;", "&gt;", "&quot;", "&#39;"}

SpecialChars == {"&", "<", ">", "\"", "'"}

\* s has the literal p at index i
HasAt(s, i, p) == i + Len(p) <= Len(s) /\ SubSeq(s, i + 1, i + Len(p)) = p

\* no special character in s but as one of the five entities
EscapedText(s) ==
  \A k \in 0..(Len(s) - 1) :
    /\ CharAt(s, k) \notin SpecialChars \ {"&"}
    /\ CharAt(s, k) = "&" => \E e \in Entities : HasAt(s, k, e)

\* the markup the renderer writes around the text of the document
TagNames ==
  {"h1", "h2", "h3", "h4", "h5", "h6", "p", "ul", "ol", "li", "blockquote", "table", "tr",
   "th", "td", "strong", "em", "code", "a"}

Markup ==
  {"<" \o n \o ">" : n \in TagNames} \cup {"</" \o n \o ">" : n \in TagNames}
    \cup {"<hr>", "<a href=\"", "\">", "<img src=\"", "\" alt=\"", "\" />"}

CodeOpen == "<pre><code"

CodeClassOpen == "<pre><code class=\""

CodeClose == "</code></pre>"

\* from index i on, s is markup of the renderer, entities, characters that need no
\* escape, and code blocks (which are passed over, from <pre><code to </code></pre>)
RECURSIVE MarkupAndEscapedText(_, _)
MarkupAndEscapedText(s, i) ==
  LET specials == {k \in i..(Len(s) - 1) : CharAt(s, k) \in SpecialChars}
      k == CHOOSE x \in specials : \A y \in specials : x <= y
      close == IndexOf(s, CodeClose, k)
  IN \/ specials = {}
     \/ /\ specials # {}
        /\ IF HasAt(s, k, CodeOpen)
           THEN close # -1 /\ MarkupAndEscapedText(s, close + Len(CodeClose))
           ELSE \E m \in Markup \cup Entities :
                  HasAt(s, k, m) /\ MarkupAndEscapedText(s, k + Len(m))

\* the code_block tokens of the last conversion
CodeBlocks == SelectSeq(tokens, LAMBDA t : t.type = "code_block")

\* those that name a language: the ones renderCodeBlock hands to the highlighter
TaggedCodeBlocks == SelectSeq(CodeBlocks, LAMBDA t : t.language # "")

\* the element to be written for a code block whose code is not highlighted
PlainCodeElement(t) ==
  (IF t.language # "" THEN CodeClassOpen \o "language-" \o t.language \o "\">"
   ELSE CodeOpen \o ">") \o Escaped(t.code) \o CodeClose

-----------------------------------------------------------------------------
(* The properties *)

\* C1: convert throws if and only if markdown is not a string; for a string, whatever
\* its markers and fences and whatever the highlighter does, it returns a document,
\* and for a value that is not a string it throws
C1_ThrowsIffNotString ==
  outcome # "none" =>
    /\ outcome = "threw" <=> markdown.type # "string"
    /\ Returned => StartsWith(html, "<!DOCTYPE html>") /\ EndsWith(html, "</html>")

\* C2: the result of a call depends only on the text, on the options passed to this
\* call and on the defaults (and on what the highlighter does), not on earlier calls
C2_NoOptionsCarriedOver ==
  Returned =>
    \E env \in HljsBehaviours :
      html = Render(Parse(Tokenize(markdown.value)),
                    Merge(DefaultOptions, callOptions), env).html

\* C3: tokenize("") returns no token
C3_EmptyTextNoTokens ==
  (Returned /\ markdown.type = "string" /\ markdown.value = "") => Len(tokens) = 0

\* C4: a line end after a text that does not end in one adds no token:
\* tokenize(t + "\n") is tokenize(t)
C4_NoPhantomTrailingLine ==
  (/\ Returned
   /\ markdown.type = "string"
   /\ CharAt(markdown.value, Len(markdown.value) - 1) # "\n") =>
    Tokenize(markdown.value \o "\n") = tokens

\* C5: outside code blocks, the document body is the renderer's own markup with
\* HTML-escaped text in between and in the href, src and alt attributes: no & < > " '
\* of the input is written but as an entity
C5_TextIsEscaped == Returned => MarkupAndEscapedText(Body(html), 0)

\* C5 witness: a link and table cells made of special characters
C5_Witness ==
  /\ markdown.value = "[<&>](<&>)\n|<&>|<&>|"
  /\ Returned
  /\ Contains(html, "<a href=\"&lt;&amp;&gt;\">&lt;&amp;&gt;</a>")
  /\ Contains(html, "<th>&lt;&amp;&gt;</th>")

\* C6: the class attribute of a code element holds the language indicator escaped:
\* every <pre><code class=" is followed by escaped text, then by the closing ">
C6_LanguageIsEscaped ==
  Returned =>
    \A k \in 0..Len(html) :
      HasAt(html, k, CodeClassOpen) =>
        LET from == k + Len(CodeClassOpen)
            quote == IndexOf(html, "\"", from)
        IN /\ quote # -1
           /\ EscapedText(Substring(html, from, quote))
           /\ HasAt(html, quote, "\">")

\* C7: when the highlighter throws on a code block, the conversion still returns and
\* the block is written as its HTML-escaped plain code
C7_HighlightFailureFallsBack ==
  (outcome # "none" /\ \E k \in 1..Len(hljs) : hljs[k] = "threw") =>
    /\ Returned
    /\ \A k \in 1..Len(hljs) :
         hljs[k] = "threw" => Contains(Body(html), PlainCodeElement(TaggedCodeBlocks[k]))

\* C7 witness: the highlighter throws on a language it knows, in code with a <
C7_Witness ==
  /\ markdown.value = "~~~js\n<&>\n~~~"
  /\ hljs = <<"threw">>
  /\ Returned
  /\ Contains(html, "<pre><code class=\"language-js\">&lt;&amp;&gt;</code></pre>")

C9_PlainCodeTagHasNoAttribute ==
  (Returned /\ ~options.highlight /\ Len(TaggedCodeBlocks) > 0) =>
    Contains(html, "<pre>") /\ Contains(html, "<code>")

\* C10: the root element has class dark-theme exactly when the theme option in force
\* is 'dark', light-theme for any other value; and the shell is written whatever the text
C10_ThemeClassAndShell ==
  Returned =>
    /\ StartsWith(html, "<!DOCTYPE html>\n<html lang=\"en\" class=\"")
    /\ RootClass(html) = IF options.theme = "dark" THEN "dark-theme" ELSE "light-theme"
    /\ Contains(html, "\">\n<head>")
    /\ Contains(html, "<link rel=\"stylesheet\" href=\"styles.css\">\n</head>\n<body>")
    /\ Contains(html, "<div class=\"container\">")
    /\ EndsWith(html, "</div>\n</body>\n</html>")

\* C10 witness: the empty text under a theme name the renderer does not know
C10_Witness ==
  /\ markdown = [type |-> "string", split |-> TRUE, value |-> ""]
  /\ options.theme = "sepia"
  /\ Returned
  /\ RootClass(html) = "light-theme"

\* C11: a line of n '#' (1 <= n <= 6), white space and text without markers gives one
\* header token of level n and the one element <hn>text</hn>, nothing else; the level
\* of every header token is in 1..6 and is the number of leading '#' of its line; a
\* line that starts with seven or more '#' gives no header
C11_HeaderLevels ==
  Returned =>
    /\ \A n \in 1..MaxHashes, gap \in HeaderGaps, body \in HeaderBodies :
         markdown.value = Hashes(n) \o gap \o body =>
           IF n <= 6
           THEN /\ Len(tokens) = 1
                /\ tokens[1].type = "header"
                /\ tokens[1].level = n
                /\ tokens[1].text = body
                /\ Body(html) = "<h" \o SubSeq("123456", n, n) \o ">" \o body
                                  \o "</h" \o SubSeq("123456", n, n) \o ">"
           ELSE /\ \A k \in 1..Len(tokens) : tokens[k].type # "header"
                /\ ~Contains(Body(html), "<h")
    /\ \A k \in 1..Len(tokens) :
         tokens[k].type = "header" =>
           /\ tokens[k].level \in 1..6
           /\ tokens[k].level = Run(Trim(tokens[k].value), 0, {"#"})

\* C11 witness: a header of the deepest level
C11_Witness ==
  /\ markdown.value = "######  a b"
  /\ Returned
  /\ tokens[1].level = 6
  /\ Body(html) = "<h6>a b</h6>"

\* the positions where a maximal run of tokens of a type starts, and where it ends
RunStarts(toks, type) ==
  {p \in 1..Len(toks) : toks[p].type = type /\ (p = 1 \/ toks[p - 1].type # type)}

RunEnd(toks, p, type) ==
  CHOOSE e \in p..Len(toks) :
    /\ \A j \in p..e : toks[j].type = type
    /\ e = Len(toks) \/ toks[e + 1].type # type

\* the k-th element of a set of positions, in increasing order
NthOf(positions, k) ==
  CHOOSE p \in positions : Cardinality({q \in positions : q < p}) = k - 1

\* the nodes of a type among the children of the document parse returns
NodesOf(toks, type) == SelectSeq(Parse(toks).children, LAMBDA c : c.type = type)

\* the nodes of type nodeType are the maximal runs of tokens of type tokenType, in
\* order, with one item per token, each item the token's content resolved by itself
RunsAreNodes(toks, tokenType, nodeType) ==
  LET starts == RunStarts(toks, tokenType)
      nodes == NodesOf(toks, nodeType)
  IN /\ Len(nodes) = Cardinality(starts)
     /\ \A k \in 1..Len(nodes) :
          LET p == NthOf(starts, k)
              e == RunEnd(toks, p, tokenType)
          IN /\ Len(nodes[k].items) = e - p + 1
             /\ \A j \in 1..(e - p + 1) :
                  /\ nodes[k].items[j].content = toks[p + j - 1].content
                  /\ nodes[k].items[j].children = ParseInlineContent(toks[p + j - 1].content)

\* C12: each maximal run of list_item tokens becomes one list node with one item per
\* token, in order, and each maximal run of ordered_list_item tokens one ordered list;
\* a run ends at the first token of another kind, and each item is resolved by itself
C12_ListRuns ==
  Returned =>
    /\ RunsAreNodes(tokens, "list_item", "list")
    /\ RunsAreNodes(tokens, "ordered_list_item", "ordered_list")

\* C12 witness: two unordered items, each with half of a bold marker, then an
\* ordered item
C12_Witness ==
  /\ markdown.value = "- **b\n* c**\n1. d"
  /\ Returned
  /\ Body(html) = "<ul>\n<li>**b</li>\n<li>c**</li>\n</ul>\n<ol>\n<li>d</li>\n</ol>"

\* the number of places where p occurs in s
Occurrences(s, p) == Cardinality({k \in 0..Len(s) : HasAt(s, k, p)})

\* the table element for the run of table_row tokens from p to e: a tr per token,
\* th for the cells of the first, td for those of the others
TableElement(toks, p, e) ==
  LET cell(j, c) == IF j = 1 THEN "<th>" \o Escaped(c) \o "</th>"
                    ELSE "<td>" \o Escaped(c) \o "</td>"
      row(j) == LET cs == toks[p + j - 1].cells
                IN "<tr>" \o Join([c \in 1..Len(cs) |-> cell(j, cs[c])], "") \o "</tr>"
  IN "<table>\n" \o Join([j \in 1..(e - p + 1) |-> row(j)], "\n") \o "\n</table>"

\* C13: a run of N table-row lines gives one table with N tr elements in the order of
\* the lines, the cells of the first row as th and those of the later rows as td
C13_TableRows ==
  Returned =>
    LET starts == RunStarts(tokens, "table_row")
        rows == {p \in 1..Len(tokens) : tokens[p].type = "table_row"}
    IN /\ Occurrences(Body(html), "<table>") = Cardinality(starts)
       /\ Occurrences(Body(html), "<tr>") = Cardinality(rows)
       /\ \A p \in starts :
            Contains(Body(html), TableElement(tokens, p, RunEnd(tokens, p, "table_row")))

\* C13 witness: three rows, the second a separator row
C13_Witness ==
  /\ markdown.value = "|a|b|\n|---|---|\n| c | d |"
  /\ Returned
  /\ Body(html) = "<table>\n<tr><th>a</th><th>b</th></tr>\n<tr><td>---</td><td>---</td></tr>"
                     \o "\n<tr><td>c</td><td>d</td></tr>\n</table>"

\* the columns of a table-row line: the pieces between its pipes, trimmed, without
\* the piece before the first pipe and the piece after the last
Columns(line) ==
  LET pieces == Split(Trim(line), "|")
  IN [k \in 1..(Len(pieces) - 2) |-> Trim(pieces[k + 1])]

\* C14: the cells of a table_row token are the columns of its line, one entry per
\* column, in order, the empty columns included
C14_CellPerColumn ==
  Returned =>
    \A k \in 1..Len(tokens) :
      tokens[k].type = "table_row" => tokens[k].cells = Columns(tokens[k].value)

\* the index of the first line after line p whose trimmed form begins with the fence,
\* the number of lines when there is none
ClosingFence(lines, p) ==
  LET later == {j \in (p + 1)..(Len(lines) - 1) : StartsWith(Trim(lines[j + 1]), Fence)}
  IN IF later = {} THEN Len(lines) ELSE CHOOSE j \in later : \A k \in later : j <= k

\* C15: a code_block token opened at line p takes the lines up to and including the
\* first later fence line (or to the end): its code is the lines in between, untrimmed
\* and joined by line ends, no other token comes from those lines, and the tokens
\* after it are those of the text after the closing fence, tokenized on its own
C15_FenceConsumesBlock ==
  Returned =>
    LET lines == Split(markdown.value, "\n")
    IN /\ StartsWith(Trim(lines[1]), Fence) =>
            tokens[1].type = "code_block" /\ tokens[1].position = 0
       /\ \A k \in 1..Len(tokens) :
            tokens[k].type = "code_block" =>
              LET p == tokens[k].position
                  e == ClosingFence(lines, p)
                  rest == IF e + 1 < Len(lines)
                          THEN Tokenize(Join(SubSeq(lines, e + 2, Len(lines)), "\n"))
                          ELSE <<>>
              IN /\ StartsWith(Trim(lines[p + 1]), Fence)
                 /\ tokens[k].code = Join(SubSeq(lines, p + 2, e), "\n")
                 /\ \A m \in 1..Len(tokens) : tokens[m].position \notin (p + 1)..e
                 /\ Len(tokens) = k + Len(rest)
                 /\ \A m \in 1..Len(rest) :
                      tokens[k + m] = [rest[m] EXCEPT !.position = @ + e + 1]

\* C15 witness: a header line inside the fence, kept with its blanks, and a list
\* line after the closing fence
C15_Witness ==
  /\ markdown.value = "  " \o Fence \o "js \n  # x \n " \o Fence \o " x\n- a"
  /\ Returned
  /\ Len(tokens) = 2
  /\ tokens[1].type = "code_block" /\ tokens[1].language = "js"
  /\ tokens[1].code = "  # x "
  /\ tokens[2].type = "list_item" /\ tokens[2].position = 3

\* the markup around the inline content of a line that opens with prefix pre, and
\* the text the prefix leaves in that content
BlockOpen(pre) ==
  CASE pre = "# " -> "<h1>" [] pre = "- " -> "<ul>\n<li>" [] OTHER -> "<p>" \o pre

BlockClose(pre) ==
  CASE pre = "# " -> "</h1>" [] pre = "- " -> "</li>\n</ul>" [] OTHER -> "</p>"

\* C16: [A](u) gives one link whose href is the escaped u and whose text is the
\* escaped A, taken literally: bold markers in the label stay, no strong element
C16_LinkLabelLiteral ==
  Returned =>
    \A pre \in InlinePrefixes, label \in InlineLabels, url \in InlineUrls,
       post \in InlineSuffixes :
      markdown.value = pre \o "[" \o label \o "](" \o url \o ")" \o post =>
        /\ Body(html) = BlockOpen(pre) \o "<a href=\"" \o Escaped(url) \o "\">"
                           \o Escaped(label) \o "</a>" \o post \o BlockClose(pre)
        /\ ~Contains(Body(html), "<strong>")

\* C16 witness: a label with bold markers, a url with an ampersand
C16_Witness ==
  /\ markdown.value = "[**b**](u&v)"
  /\ Returned
  /\ Body(html) = "<p><a href=\"u&amp;v\">**b**</a></p>"

\* C17: where the scan stands at ![alt](src) it produces one image node with that alt
\* and src, written as an img element, and not the text ! followed by a link
C17_ImageBeforeLink ==
  Returned =>
    \A alt \in InlineLabels, src \in InlineUrls :
      LET image == "![" \o alt \o "](" \o src \o ")"
          node == [type |-> "image", content |-> alt, src |-> src, alt |-> alt]
          element == "<img src=\"" \o Escaped(src) \o "\" alt=\"" \o Escaped(alt) \o "\" />"
      IN /\ \A i \in 0..Len(markdown.value) :
              HasAt(markdown.value, i, image) =>
                Head(InlineScan(markdown.value, i, "", <<>>)) = node
         /\ \A pre \in InlinePrefixes, bang \in {"", "!"}, post \in InlineSuffixes :
              markdown.value = pre \o bang \o image \o post =>
                /\ Body(html) = BlockOpen(pre) \o bang \o element \o post \o BlockClose(pre)
                /\ ~Contains(Body(html), "<a href")

\* C17 witness: an image after a word
C17_Witness ==
  /\ markdown.value = "x ![A](u&v) y"
  /\ Returned
  /\ Body(html) = "<p>x <img src=\"u&amp;v\" alt=\"A\" /> y</p>"

\* nothing of the agent is pending for the file: no timer, no convertFile call and no
\* removeOutputFile call
Quiescent(filePath) ==
  /\ timers[filePath] = 0
  /\ \A s \in ConvertSteps : converting[filePath][s] = 0
  /\ \A s \in RemoveSteps : removing[filePath][s] = 0

\* C18: the add and change events for a file that arrive within one debounce window
\* (from the first of them until its timer fires) give one conversion of the file:
\* one timer per window whatever the number of events, one convertFile call per
\* timer, and, the file not being deleted, one HTML file written per window
C18_OneConversionPerWindow ==
  \A filePath \in WatchedFiles :
    /\ timers[filePath] <= 1
    /\ windows[filePath] = started[filePath] + timers[filePath]
    /\ (filePath \notin unlinked /\ Quiescent(filePath)) =>
         converted[filePath] = windows[filePath]

\* C18 witness: three events for a file in one window, one conversion done
C18_Witness ==
  /\ windowEvents["a.md"] = 3
  /\ windows["a.md"] = 1
  /\ Quiescent("a.md")
  /\ started["a.md"] = 1
  /\ converted["a.md"] = 1

\* C19: once a markdown file is deleted and every timer, conversion and removal for
\* it has finished, its HTML file does not exist in the output folder
C19_NoOrphanOutput ==
  \A filePath \in WatchedFiles :
    (filePath \notin mdFiles /\ Quiescent(filePath)) => filePath \notin htmlFiles

\* C20: a batch holds at most as many files as the concurrency option says, no more
\* conversions than that are pending at once, and no batch runs while the loop is
\* at its test
C20_BatchWithinConcurrency ==
  /\ Len(batch) <= ToNumber(concurrency)
  /\ Cardinality({k \in 1..Len(batch) : batchResults[k] = "pending"}) <= ToNumber(concurrency)
  /\ batchAt = "for" => batch = <<>>

\* lines with one inline span each, with the kind of the span and what it carries
SpanLines ==
  {[line |-> "This is **bold** text", type |-> "bold", content |-> "bold", target |-> ""],
   [line |-> "This is *italic* text", type |-> "italic", content |-> "italic", target |-> ""],
   [line |-> "This is " \o Backtick \o "code" \o Backtick \o " text", type |-> "inline_code",
    content |-> "code", target |-> ""],
   [line |-> "[Google](u)", type |-> "link", content |-> "Google", target |-> "u"],
   [line |-> "![Alt text](s)", type |-> "image", content |-> "Alt text", target |-> "s"]}

\* C21: for a line with one bold, italic, inline code, link or image span, the tokens
\* tokenize returns hold exactly one token of that type, carrying the span's content
\* (text and url for a link, alt and src for an image)
C21_LexerEmitsSpanTokens ==
  Returned =>
    \A span \in SpanLines :
      markdown.value = span.line =>
        LET found == {k \in 1..Len(tokens) : tokens[k].type = span.type}
        IN /\ Cardinality(found) = 1
           /\ \A k \in found :
                CASE span.type = "link" ->
                       tokens[k].text = span.content /\ tokens[k].url = span.target
                  [] span.type = "image" ->
                       tokens[k].alt = span.content /\ tokens[k].src = span.target
                  [] OTHER -> tokens[k].content = span.content

\* the text is one paragraph line: its inline content is the whole text
OneParagraph ==
  /\ Returned
  /\ Len(tokens) = 1 /\ tokens[1].type = "paragraph"
  /\ Len(astRoot.children) = 1 /\ astRoot.children[1].type = "paragraph"

\* the inline children of that paragraph
InlineChildren == astRoot.children[1].children

\* c stands at index k of t and is not followed by another c
SingleAt(t, k, c) == CharAt(t, k) = c /\ CharAt(t, k + 1) # c

\* no opening marker of t has a closer: no ** after a **, no single * after a single
\* *, no backquote after a backquote, no ]( with a ) behind it after a [
NoCloser(t) ==
  \A k \in 0..(Len(t) - 1) :
    /\ HasAt(t, k, "**") => IndexOf(t, "**", k + 2) = -1
    /\ SingleAt(t, k, "*") => \A j \in (k + 1)..(Len(t) - 1) : ~SingleAt(t, j, "*")
    /\ CharAt(t, k) = Backtick => IndexOf(t, Backtick, k + 1) = -1
    /\ CharAt(t, k) = "[" =>
         \A j \in (k + 1)..(Len(t) - 1) : HasAt(t, j, "](") => IndexOf(t, ")", j + 2) = -1

\* C22: a text in which no opening marker has a closer resolves to text nodes only,
\* and these, rendered in order, are the HTML-escaped text, nothing lost or moved
C22_UnmatchedMarkersAreText ==
  (OneParagraph /\ NoCloser(markdown.value)) =>
    /\ \A k \in 1..Len(InlineChildren) : InlineChildren[k].type = "text"
    /\ Join([k \in 1..Len(InlineChildren) |-> InlineChildren[k].content], "") = markdown.value
    /\ Body(html) = "<p>" \o Escaped(markdown.value) \o "</p>"

\* C22 witness: a ** and a [ that nothing closes, between plain text
C22_Witness ==
  /\ markdown.value = "x**[<x"
  /\ OneParagraph
  /\ NoCloser(markdown.value)
  /\ Len(InlineChildren) = 4
  /\ Body(html) = "<p>x**[&lt;x</p>"

\* the indices after an opening ** at index 0 where t reads ** again
LaterBoldMarks(t) == {k \in 2..Len(t) : HasAt(t, k, "**")}

\* C23: a ** that the scan reaches and that has a later ** is closed by the first of
\* them: the bold content is the text in between, and the scan goes on right after
\* that closer; **a*b**c* is bold a*b, then the literal c*
C23_BoldClosesAtFirstMatch ==
  LET t == markdown.value
      first == CHOOSE k \in LaterBoldMarks(t) : \A j \in LaterBoldMarks(t) : k <= j
  IN /\ (OneParagraph /\ HasAt(t, 0, "**") /\ LaterBoldMarks(t) # {}) =>
          /\ InlineChildren[1] = [type |-> "bold", content |-> Substring(t, 2, first)]
          /\ SubSeq(InlineChildren, 2, Len(InlineChildren))
               = ParseInlineContent(Substring(t, first + 2, Len(t)))
     /\ (Returned /\ t = "**a*b**c*") => Body(html) = "<p><strong>a*b</strong>c*</p>"

\* C23 witness: three ** in a line, the first two make the span
C23_Witness ==
  /\ markdown.value = "**a**b**"
  /\ OneParagraph
  /\ InlineChildren[1] = [type |-> "bold", content |-> "a"]
  /\ Body(html) = "<p><strong>a</strong>b**</p>"

\* lines with a span inside a bold or italic span, and the body for them when the
\* inner span is an element of its own
NestedSpans ==
  {[line |-> "**" \o Backtick \o "c" \o Backtick \o "**",
    body |-> "<p><strong><code>c</code></strong></p>"],
   [line |-> "**[t](u)**", body |-> "<p><strong><a href=\"u\">t</a></strong></p>"],
   [line |-> "*[t](u)*", body |-> "<p><em><a href=\"u\">t</a></em></p>"]}

\* C24: a bold or italic node carries the resolved inline children of its content, so
\* a code span or a link inside it is a child node and is written as its own element
C24_SpansInsideSpansAreResolved ==
  OneParagraph =>
    \A nested \in NestedSpans :
      markdown.value = nested.line =>
        /\ Len(InlineChildren) = 1
        /\ "children" \in DOMAIN InlineChildren[1]
        /\ InlineChildren[1].children = ParseInlineContent(InlineChildren[1].content)
        /\ Body(html) = nested.body

\* the kinds of token that parse gathers into one node per run
RunKinds == {"list_item", "ordered_list_item", "table_row"}

\* the type of the node for a token type
NodeType(tokenType) ==
  CASE tokenType = "list_item" -> "list"
    [] tokenType = "ordered_list_item" -> "ordered_list"
    [] tokenType = "table_row" -> "table"
    [] OTHER -> tokenType

\* the positions of the tokens a node begins with: the first of each run of a run
\* kind, every token of another kind, no line_break
NodeStarts(toks) ==
  {p \in 1..Len(toks) :
     /\ toks[p].type # "line_break"
     /\ toks[p].type \in RunKinds => (p = 1 \/ toks[p - 1].type # toks[p].type)}

\* the number of tokens a node stands for: the items of a list, the rows of a table,
\* one otherwise
Consumed(node) ==
  CASE node.type \in {"list", "ordered_list"} -> Len(node.items)
    [] node.type = "table" -> Len(node.rows)
    [] OTHER -> 1

RECURSIVE SumOf(_)
SumOf(numbers) == IF numbers = <<>> THEN 0 ELSE Head(numbers) + SumOf(Tail(numbers))

\* C25: the children of the document are, in order, one node per maximal run of
\* list_item, ordered_list_item or table_row tokens and one node per token of any other
\* kind (each blockquote line its own node), none for a line_break; every token is
\* consumed once
C25_OneNodePerRunOrToken ==
  Returned =>
    LET starts == NodeStarts(tokens)
        kids == astRoot.children
        breaks == Cardinality({p \in 1..Len(tokens) : tokens[p].type = "line_break"})
    IN /\ Len(kids) = Cardinality(starts)
       /\ \A k \in 1..Len(kids) :
            LET token == tokens[NthOf(starts, k)]
            IN /\ kids[k].type = NodeType(token.type)
               /\ kids[k].type \in {"blockquote", "paragraph"} =>
                    kids[k].content = token.content
       /\ SumOf([k \in 1..Len(kids) |-> Consumed(kids[k])]) + breaks = Len(tokens)

\* C25 witness: two blockquote lines, each a node, and a list item
C25_Witness ==
  /\ markdown.value = "> q\n> q\n- a"
  /\ Returned
  /\ Len(astRoot.children) = 3
  /\ astRoot.children[1].type = "blockquote"
  /\ astRoot.children[2].type = "blockquote"
  /\ astRoot.children[3].type = "list"

\* an inline node written back as the markdown it was read from
Reserialised(node) ==
  CASE node.type = "text" -> node.content
    [] node.type = "bold" -> "**" \o node.content \o "**"
    [] node.type = "italic" -> "*" \o node.content \o "*"
    [] node.type = "inline_code" -> Backtick \o node.content \o Backtick
    [] node.type = "link" -> "[" \o node.content \o "](" \o node.url \o ")"
    [] node.type = "image" -> "![" \o node.alt \o "](" \o node.src \o ")"

\* C26: inline resolution loses nothing and ends: the children of a paragraph or
\* blockquote, written back in order as markdown, are its content, and each child
\* stands for at least one character of it, so there are no more children than
\* characters
C26_InlineResolutionLossless ==
  Returned =>
    \A n \in 1..Len(astRoot.children) :
      LET node == astRoot.children[n]
      IN node.type \in {"paragraph", "blockquote"} =>
           /\ Join([k \in 1..Len(node.children) |-> Reserialised(node.children[k])], "")
                = node.content
           /\ \A k \in 1..Len(node.children) : Reserialised(node.children[k]) # ""
           /\ Len(node.children) <= Len(node.content)

\* C26 witness: an unclosed ** before a link
C26_Witness ==
  /\ markdown.value = "**[<](&)"
  /\ OneParagraph
  /\ Len(InlineChildren) = 3
  /\ InlineChildren[1] = [type |-> "text", content |-> "*"]
  /\ InlineChildren[3] = [type |-> "link", content |-> "<", url |-> "&"]

\* the conversions of a file that are in progress
InProgress(filePath) ==
  converting[filePath]["pathExists"] + converting[filePath]["readFile"]
    + converting[filePath]["writeFile"]

\* C27: at most one conversion of a file is in progress at any time
C27_OneConversionAtATime ==
  \A filePath \in WatchedFiles : InProgress(filePath) <= 1

\* C28: for a file that is not deleted, every add or change event is eventually
\* followed by a conversion whose read of the file began after the event
C28_NoChangeLost ==
  \A filePath \in WatchedFiles :
    (filePath \in unread) ~> (filePath \notin unread \/ filePath \in unlinked)

\* C28 witness: an event was dropped while the timer was pending, and a conversion
\* has read the file since
C28_Witness ==
  /\ windowEvents["a.md"] = 2
  /\ windows["a.md"] = 1
  /\ "a.md" \notin unlinked
  /\ "a.md" \notin unread
  /\ converted["a.md"] = 1

\* C29: a call of convert that throws leaves the renderer's options as they were
\* before the call
C29_FailedConvertKeepsOptions ==
  [][outcome' = "threw" => options' = options]_vars

\* C30: for a path that isMarkdownFile accepts, whatever the case of its extension,
\* generateOutputPath returns <outputDir or the folder of the input>/<name>.html,
\* <name> being the file name without its markdown extension
C30_OutputPathDropsExtension ==
  convertFileAt = "generated" =>
    \A folder \in PathFolders, stem \in PathStems, ext \in PathExtensions :
      (inputPath = folder \o stem \o ext /\ stem # "" /\ ext # "") =>
        LET into == IF outputDir # "" THEN outputDir \o "/"
                    ELSE folder
        IN outputPath = into \o stem \o ".html"

=============================================================================
